---- MODULE Spec2Model ----
(***************************************************************************)
(* Link resolution and caching subsystem of the URL shortener:             *)
(* LinkService (src/services/link.py), ProjectService                      *)
(* (src/services/project.py) and CacheManager (src/utils/cache.py) over a  *)
(* relational store and a key-value cache with TTLs.                       *)
(*                                                                         *)
(* Time is counted in minutes.  A datetime is the integer number of       *)
(* minutes of its UTC instant; None is NoTime.                             *)
(***************************************************************************)
EXTENDS Integers, FiniteSets, Sequences, TLC

\* ------------------------------------------------------------------ bounds
MaxLinks == 2
MaxTicks == 1
MaxClicks == 2
MaxCalls == 4
MaxProcs == 2

\* ------------------------------------------------------- program constants
MinExpirationMinutes == 5
MinutesPerDay == 1440
PublicLifetimeDays == 5
DefaultLifetimeDays == 30
CacheTtl == 60
AclTtl == 5
PopularTtl == 10
DefaultPopularLimit == 10

\* --------------------------------------------------------- value universes
Codes == {"a", "b"}
Users == {"u1", "u2"}
NoUser == "none"
SysUser == "sys"
NoCode == ""
NoTime == -1
NoProject == 0
WorkProject == 1
LinkIds == 1..MaxLinks
ProcIds == 1..MaxProcs
TickSteps == {6, 60}
ExpOffsets == {4, 5, (PublicLifetimeDays * MinutesPerDay) + 1}
Requesters == Users \cup {NoUser}

NoProjectRow == [id |-> NoProject, name |-> "", default_link_lifetime_days |-> 0,
                 owner_id |-> NoUser]

NoLink == [id |-> 0, original_url |-> "", short_code |-> NoCode,
           created_at |-> NoTime, expires_at |-> NoTime, owner_id |-> NoUser,
           project_id |-> NoProject, clicks_count |-> 0,
           last_clicked_at |-> NoTime, is_public |-> FALSE]

VARIABLES
    now,            \* datetime.now(timezone.utc), in minutes
    ticks,          \* number of clock advances so far
    links,          \* table links
    nextLinkId,     \* autoincrement of links.id
    projects,       \* table projects
    nextProjectId,  \* autoincrement of projects.id
    members,        \* table project_members
    users,          \* table users (id, is_superuser)
    cache,          \* Redis: key -> [val, exp]
    redis_up,       \* whether the commands sent to Redis succeed
    proc,           \* the requests in flight that span several awaits
    clicked,        \* per link id: calls of update_link_stats made for the stored link
    ret,            \* outcome of the last call that returned
    calls           \* calls the clients have made so far

vars == <<now, ticks, links, nextLinkId, projects, nextProjectId, members,
          users, cache, redis_up, proc, clicked, ret, calls>>

storeVars == <<links, nextLinkId, projects, nextProjectId, members, users>>

\* ------------------------------------------------------------------ results
NoRet == [op |-> "none", status |-> 0, msg |-> "", arg |-> NoCode,
          code |-> NoCode, user |-> NoUser, link |-> NoLink,
          can_read |-> FALSE, can_modify |-> FALSE, acl_hit |-> FALSE,
          path |-> "", n |-> 0, popular |-> << >>]

Pending(op) == [NoRet EXCEPT !.op = op, !.msg = "pending"]

\* HTTPException(status_code, detail); arg is the value formatted into detail
HttpError(r, status, msg, arg) ==
    [r EXCEPT !.status = status, !.msg = msg, !.arg = arg]

Returned(r, link) == [r EXCEPT !.status = 200, !.msg = "ok", !.link = link]

\* ------------------------------------------------------------ CacheManager
Key(kind, code, user, n) == [kind |-> kind, code |-> code, user |-> user, n |-> n]
StaticKey(c) == Key("static", c, "", 0)
\* a stats key that collides with the static key of the code
StatsKeyOnStatic(c) == Key("static", c, "", 0)
StatsKey(c) == Key("stats", c, "", 0)
AclKey(c, u) == Key("acl", c, u, 0)
BareKey(c) == Key("bare", c, "", 0)
PopularKey(limit) == Key("popular", NoCode, "", limit)

\* a lookup that answers from Redis's memory whether or not Redis can be reached
CacheHitIgnoringOutage(ch, k) == k \in DOMAIN ch

\* get: the value, or None when the key is absent or the command raises
CacheHit(ch, k) == redis_up /\ k \in DOMAIN ch

\* set: stores the value with its TTL; a command that raises is logged only
CacheSet(ch, k, v, expire) ==
    IF redis_up
    THEN [x \in (DOMAIN ch) \cup {k} |->
            IF x = k THEN [val |-> v, exp |-> now + expire] ELSE ch[x]]
    ELSE ch

\* delete of one key; a command that raises is logged only
CacheDelete(ch, k) ==
    IF redis_up THEN [x \in (DOMAIN ch) \ {k} |-> ch[x]] ELSE ch

\* Redis drops a key once its TTL has elapsed
CacheAt(ch, t) == [x \in {k \in DOMAIN ch : ch[k].exp > t} |-> ch[x]]

\* ------------------------------------------------------------------- store
LinksByCode(ls, c) == {l \in ls : l.short_code = c}

\* a lookup that never finds the code
GetLinkByShortCodeMiss(ls, c) == NoLink

\* select(Link).where(Link.short_code == c) ... .first()
GetLinkByShortCode(ls, c) ==
    IF LinksByCode(ls, c) = {} THEN NoLink
    ELSE CHOOSE l \in LinksByCode(ls, c) :
            \A m \in LinksByCode(ls, c) : l.id <= m.id

GetProjectById(ps, id) ==
    IF \E p \in ps : p.id = id THEN CHOOSE p \in ps : p.id = id ELSE NoProjectRow

PublicProjects == {p \in projects : p.name = "Public"}

IsMember(ms, pid, u) == \E m \in ms : m.project_id = pid /\ m.user_id = u

\* _check_user_in_project: owner of the project or a membership row
CheckUserInProject(project, u) ==
    project.owner_id = u \/ IsMember(members, project.id, u)

\* a check that rejects only expirations already in the past
ExpiresInPast(expires_at, t) == expires_at < t

\* data.expires_at < current_time + timedelta(minutes=5)
ExpiresTooSoon(expires_at, t) == expires_at < t + MinExpirationMinutes

\* Column(String, unique=True): the INSERT is rejected when the code is taken
UniqueShortCode(ls, c) == LinksByCode(ls, c) = {}

\* a generator that returns its first draw
GenerateWithoutCheck(q, c) ==
    [q EXCEPT !.pc = "insert", !.code = c, !.free = LinksByCode(links, c) = {}]

\* an anonymous expiration that is only defaulted, never clamped
AnonymousExpiresAtUnclamped(expires_at, max_lifetime) ==
    IF expires_at = NoTime THEN now + max_lifetime ELSE expires_at

\* lines 78-83: not data.expires_at or expires_at - current_time > max_lifetime
AnonymousExpiresAt(expires_at, max_lifetime) ==
    IF expires_at = NoTime \/ expires_at - now > max_lifetime
    THEN now + max_lifetime ELSE expires_at

\* one round of the loop of _generate_short_code with the drawn code c
GenerateShortCode(q, c) ==
    IF GetLinkByShortCode(links, c) # NoLink
    THEN [q EXCEPT !.redrawn = TRUE]
    ELSE [q EXCEPT !.pc = "insert", !.code = c,
                   !.free = LinksByCode(links, c) = {}]

\* ------------------------------------------------------- cache projections
\* a datetime object: its wall-clock reading and, when aware, its UTC offset
\* (both in minutes); None is NoDatetime
NoDatetime == [wall |-> NoTime, aware |-> FALSE, off |-> 0]

\* a driver that hands timestamps over in a session time zone east of UTC
LoadedInSessionZone(t) ==
    IF t = NoTime THEN NoDatetime
    ELSE [wall |-> t + 180, aware |-> TRUE, off |-> 180]

\* a DateTime(timezone=True) column as asyncpg hands it over: aware, in UTC
Loaded(t) ==
    IF t = NoTime THEN NoDatetime ELSE [wall |-> t, aware |-> TRUE, off |-> 0]

\* ensure_timezone: a naive datetime is read as UTC, an aware one is kept
EnsureTimezone(dt) ==
    IF dt # NoDatetime /\ ~dt.aware THEN [dt EXCEPT !.aware = TRUE, !.off = 0]
    ELSE dt

\* datetime.isoformat(): the wall-clock reading followed by the offset, if any
IsoFormat(dt) == [iso |-> dt]

\* datetime.fromisoformat(): the reading and offset the string spells out
FromIsoFormat(s) == s.iso

\* datetime.replace(tzinfo=timezone.utc): same reading, offset set to UTC
ReplaceTzUtc(dt) ==
    IF dt = NoDatetime THEN dt ELSE [dt EXCEPT !.aware = TRUE, !.off = 0]

\* the instant a datetime denotes, as the store compares and keeps it
Instant(dt) == IF dt = NoDatetime THEN NoTime ELSE dt.wall - dt.off

\* a stored timestamp written to a cache schema, and read back from it
ToIso(t) == IsoFormat(EnsureTimezone(Loaded(t)))
FromIso(s) == Instant(ReplaceTzUtc(FromIsoFormat(s)))

\* str(uuid) / UUID(str)
UuidStr(u) == [str |-> u]
StrUuid(s) == s.str

\* LinkClickStats(clicks_count, last_clicked_at)
ClickStats(n, iso) == [clicks_count |-> n, last_clicked_at |-> iso]

\* LinkClickStats.from_link
StatsFromLink(link) == ClickStats(link.clicks_count, ToIso(link.last_clicked_at))

\* LinkCacheStatic.from_link
StaticFromLink(link) ==
    [id |-> link.id, original_url |-> link.original_url,
     short_code |-> link.short_code, owner_id |-> UuidStr(link.owner_id),
     project_id |-> link.project_id, is_public |-> link.is_public,
     created_at |-> ToIso(link.created_at), expires_at |-> ToIso(link.expires_at)]

\* LinkCacheStatic.to_link(clicks_count, last_clicked_at)
StaticToLink(st, stats) ==
    [id |-> st.id, original_url |-> st.original_url, short_code |-> st.short_code,
     created_at |-> FromIso(st.created_at), expires_at |-> FromIso(st.expires_at),
     owner_id |-> StrUuid(st.owner_id), project_id |-> st.project_id,
     clicks_count |-> stats.clicks_count,
     last_clicked_at |-> FromIso(stats.last_clicked_at), is_public |-> st.is_public]

\* LinkCache.from_link
CacheFromLink(link) ==
    [id |-> link.id, original_url |-> link.original_url,
     short_code |-> link.short_code, owner_id |-> UuidStr(link.owner_id),
     project_id |-> link.project_id, is_public |-> link.is_public,
     created_at |-> ToIso(link.created_at), expires_at |-> ToIso(link.expires_at),
     last_clicked_at |-> ToIso(link.last_clicked_at),
     clicks_count |-> link.clicks_count]

\* LinkCache.to_link
CacheToLink(lc) ==
    [id |-> lc.id, original_url |-> lc.original_url, short_code |-> lc.short_code,
     created_at |-> FromIso(lc.created_at), expires_at |-> FromIso(lc.expires_at),
     owner_id |-> StrUuid(lc.owner_id), project_id |-> lc.project_id,
     clicks_count |-> lc.clicks_count,
     last_clicked_at |-> FromIso(lc.last_clicked_at), is_public |-> lc.is_public]

\* lines 203-207: the cached copy says the link has expired
CachedExpired(st, t) ==
    FromIso(st.expires_at) # NoTime /\ FromIso(st.expires_at) < t

\* a store path that never takes a row for expired
StoreNeverExpired(link, t) == FALSE

\* line 242: the store row says the link has expired
StoreExpired(link, t) == link.expires_at # NoTime /\ link.expires_at < t

\* deletes of several keys, one command after the other or by SCAN pattern
CacheDeleteAll(ch, ks) ==
    IF redis_up THEN [x \in (DOMAIN ch) \ ks |-> ch[x]] ELSE ch

\* a cache path that writes the static entry back with a fresh TTL on each hit
GetLinkStatsRearming(ch, ls, c) ==
    LET armed == IF CacheHit(ch, StaticKey(c))
                 THEN CacheSet(ch, StaticKey(c), ch[StaticKey(c)].val, CacheTtl)
                 ELSE ch
    IN IF CacheHit(armed, StatsKey(c))
       THEN [stats |-> armed[StatsKey(c)].val, cache |-> armed]
       ELSE IF GetLinkByShortCode(ls, c) # NoLink
       THEN [stats |-> StatsFromLink(GetLinkByShortCode(ls, c)),
             cache |-> CacheSet(armed, StatsKey(c),
                                StatsFromLink(GetLinkByShortCode(ls, c)), CacheTtl)]
       ELSE [stats |-> ClickStats(0, ToIso(NoTime)), cache |-> armed]

\* _get_link_stats: stats entry, else the store row of the code (and cache it)
GetLinkStats(ch, ls, c) ==
    IF CacheHit(ch, StatsKey(c))
    THEN [stats |-> ch[StatsKey(c)].val, cache |-> ch]
    ELSE IF GetLinkByShortCode(ls, c) # NoLink
    THEN [stats |-> StatsFromLink(GetLinkByShortCode(ls, c)),
          cache |-> CacheSet(ch, StatsKey(c),
                             StatsFromLink(GetLinkByShortCode(ls, c)), CacheTtl)]
    ELSE [stats |-> ClickStats(0, ToIso(NoTime)), cache |-> ch]

\* ---------------------------------------------------------- access control
NoMember == [project_id |-> NoProject, user_id |-> NoUser, is_admin |-> FALSE]

\* links LEFT JOIN project_members ON project and user, WHERE short_code = c
PermissionRows(ls, ms, c, u) ==
    UNION {
        IF {m \in ms : m.project_id = l.project_id /\ m.user_id = u} = {}
        THEN {[link |-> l, pm |-> NoMember]}
        ELSE {[link |-> l, pm |-> m] :
                m \in {x \in ms : x.project_id = l.project_id /\ x.user_id = u}}
        : l \in LinksByCode(ls, c)}

CanReadPublicOnly(row, u) == row.link.is_public

CanModifyAnyMember(row, u) == row.link.owner_id = u \/ row.pm.user_id # NoUser

\* the labelled columns can_read and can_modify of one row
CanRead(row, u) ==
    row.link.is_public \/ row.link.owner_id = u \/ row.pm.user_id # NoUser

CanModify(row, u) == row.link.owner_id = u \/ row.pm.is_admin

\* _check_link_permissions: ACL entry, else the query (and cache its result)
CheckLinkPermissions(ch, ls, ms, c, u) ==
    IF CacheHit(ch, AclKey(c, u))
    THEN [can_read |-> ch[AclKey(c, u)].val[1],
          can_modify |-> ch[AclKey(c, u)].val[2], hit |-> TRUE, cache |-> ch]
    ELSE LET rows == PermissionRows(ls, ms, c, u)
             row == CHOOSE x \in rows : TRUE
             cr == IF rows = {} THEN FALSE ELSE CanRead(row, u)
             cm == IF rows = {} THEN FALSE ELSE CanModify(row, u)
         IN [can_read |-> cr, can_modify |-> cm, hit |-> FALSE,
             cache |-> CacheSet(ch, AclKey(c, u), <<cr, cm>>, AclTtl)]

\* _check_link_project_access: any membership row in the link's project
CheckLinkProjectAccess(ls, ms, link_id, u) ==
    \E l \in ls : l.id = link_id /\
        \E m \in ms : m.project_id = l.project_id /\ m.user_id = u

\* _check_link_project_admin: an admin membership row in the link's project
CheckLinkProjectAdmin(ls, ms, link_id, u) ==
    \E l \in ls : l.id = link_id /\
        \E m \in ms : m.project_id = l.project_id /\ m.user_id = u /\ m.is_admin

\* ProjectService._check_project_admin: 200, or the status it raises
CheckProjectAdmin(ps, ms, project_id, u) ==
    LET project == GetProjectById(ps, project_id)
    IN IF project = NoProjectRow THEN 404
       ELSE IF project.name = "Public" THEN 403
       ELSE IF project.owner_id = u THEN 200
       ELSE IF \E m \in ms : m.project_id = project_id /\ m.user_id = u /\ m.is_admin
       THEN 200
       ELSE 403

\* ------------------------------------------------------------ LinkUpdate
NoUrl == ""
Patch(url, expires_at, has_public, is_public) ==
    [original_url |-> url, expires_at |-> expires_at,
     has_public |-> has_public, is_public |-> is_public]

\* model_dump(exclude_unset=True, exclude_none=True) is empty
EmptyPatch(pt) ==
    pt.original_url = NoUrl /\ pt.expires_at = NoTime /\ ~pt.has_public

\* an update that also writes the fields the request left out, as False
ApplyPatchWithDefaults(link, pt) ==
    [link EXCEPT
        !.original_url = IF pt.original_url # NoUrl THEN pt.original_url ELSE @,
        !.expires_at = IF pt.expires_at # NoTime THEN pt.expires_at ELSE @,
        !.is_public = IF pt.has_public THEN pt.is_public ELSE FALSE]

\* an update that writes the whole row back from a fresh object
ApplyPatchResettingClicks(link, pt) ==
    [link EXCEPT
        !.original_url = IF pt.original_url # NoUrl THEN pt.original_url ELSE @,
        !.expires_at = IF pt.expires_at # NoTime THEN pt.expires_at ELSE @,
        !.is_public = IF pt.has_public THEN pt.is_public ELSE @,
        !.clicks_count = 0]

\* update(Link).where(Link.id == link.id).values(**update_data)
ApplyPatch(link, pt) ==
    [link EXCEPT
        !.original_url = IF pt.original_url # NoUrl THEN pt.original_url ELSE @,
        !.expires_at = IF pt.expires_at # NoTime THEN pt.expires_at ELSE @,
        !.is_public = IF pt.has_public THEN pt.is_public ELSE @]

ProjectInputs == {NoProject, WorkProject, 9}

StatsOfRowBeforeUpdate(row) ==
    ClickStats(row.clicks_count - 1, ToIso(row.last_clicked_at))

\* LinkClickStats(clicks_count, ensure_timezone(last_clicked_at).isoformat())
StatsOfRow(row) == ClickStats(row.clicks_count, ToIso(row.last_clicked_at))

\* a read-then-write increment from the caller's copy of the link
UpdateStatsFromCopy(row, seen) ==
    [row EXCEPT !.clicks_count = seen.clicks_count + 1, !.last_clicked_at = now]

\* values(clicks_count=Link.clicks_count + 1, last_clicked_at=now) on the row;
\* seen is the caller's copy of the link, which the statement does not read
UpdateStatsRow(row, seen) ==
    [row EXCEPT !.clicks_count = row.clicks_count + 1, !.last_clicked_at = now]

\* --------------------------------------------------------------- processes
IdleProc == [pc |-> "idle", user |-> NoUser, code |-> NoCode,
             project_id |-> NoProject, expires_at |-> NoTime,
             is_public |-> FALSE, pub |-> NoProjectRow, explicit |-> FALSE,
             redrawn |-> FALSE, free |-> FALSE, link_id |-> 0, row |-> NoLink,
             req |-> NoLink]

Procs == DOMAIN proc
Creating == {p \in Procs : proc[p].pc \in {"mkpub", "code", "insert"}}
Quiescent == \A p \in Procs : proc[p].pc = "idle"

\* the request as the caller sent it, kept for the outcome record;
\* created_at is the time the call was made
Request(user, code, project_id, expires_at, is_public) ==
    [NoLink EXCEPT !.owner_id = user, !.short_code = code,
                   !.project_id = project_id, !.expires_at = expires_at,
                   !.is_public = is_public, !.created_at = now]

\* -------------------------------------------------------------------- Init
WorkProjectRow == [id |-> WorkProject, name |-> "Work",
                   default_link_lifetime_days |-> DefaultLifetimeDays,
                   owner_id |-> "u1"]

InitStore ==
    /\ now = 1
    /\ ticks = 0
    /\ links = {}
    /\ nextLinkId = 1
    /\ projects = {WorkProjectRow}
    /\ nextProjectId = WorkProject + 1
    /\ members = {[project_id |-> WorkProject, user_id |-> "u1", is_admin |-> TRUE]}
    /\ users = {[id |-> u, is_superuser |-> FALSE] : u \in Users}
    /\ cache = << >>
    /\ redis_up = TRUE
    /\ clicked = [i \in LinkIds |-> 0]
    /\ ret = NoRet
    /\ calls = 0

Init ==
    /\ InitStore
    /\ proc = [p \in {1} |-> IdleProc]

\* ------------------------------------------------------------------- clock
Tick(d) ==
    /\ ticks < MaxTicks
    /\ now' = now + d
    /\ ticks' = ticks + 1
    /\ cache' = CacheAt(cache, now + d)
    /\ ret' = Pending("tick")
    /\ UNCHANGED <<storeVars, proc, clicked>>

\* ------------------------------------------------------------- create_link
\* create_link up to the first SELECT of create_public_project
CreateCall(p, user, code, project_id, expires_at, is_public) ==
    /\ proc[p].pc = "idle"
    /\ nextLinkId + Cardinality(Creating) <= MaxLinks
    /\ \/ /\ PublicProjects = {}
          /\ proc' = [proc EXCEPT ![p] =
                [IdleProc EXCEPT !.pc = "mkpub", !.user = user, !.code = code,
                    !.project_id = project_id, !.expires_at = expires_at,
                    !.is_public = is_public,
                    !.req = Request(user, code, project_id, expires_at, is_public)]]
       \/ \E pub \in PublicProjects :
             proc' = [proc EXCEPT ![p] =
                [IdleProc EXCEPT !.pc = "code", !.user = user, !.code = code,
                    !.project_id = project_id, !.expires_at = expires_at,
                    !.is_public = is_public, !.pub = pub,
                    !.req = Request(user, code, project_id, expires_at, is_public)]]
    /\ ret' = Pending("create")
    /\ UNCHANGED <<now, ticks, storeVars, cache, clicked>>

\* create_public_project when no project named Public was found
CreatePublicProject(p) ==
    /\ proc[p].pc = "mkpub"
    /\ LET admins == {u \in users : u.is_superuser}
           admin_id == IF admins = {} THEN SysUser
                       ELSE (CHOOSE u \in admins : TRUE).id
           row == [id |-> nextProjectId, name |-> "Public",
                   default_link_lifetime_days |-> PublicLifetimeDays,
                   owner_id |-> admin_id]
       IN /\ users' = IF admins = {}
                      THEN users \cup {[id |-> SysUser, is_superuser |-> TRUE]}
                      ELSE users
          /\ projects' = projects \cup {row}
          /\ nextProjectId' = nextProjectId + 1
          /\ proc' = [proc EXCEPT ![p].pc = "code", ![p].pub = row]
    /\ ret' = Pending("create")
    /\ UNCHANGED <<now, ticks, links, nextLinkId, members, cache, clicked>>

\* lines 65-112: anonymous defaults, then uniqueness of the short code
CreateShortCode(p) ==
    /\ proc[p].pc = "code"
    /\ LET q == proc[p]
           anon == q.user = NoUser
           max_lifetime == q.pub.default_link_lifetime_days * MinutesPerDay
           q1 == IF anon
                 THEN [q EXCEPT
                        !.expires_at = AnonymousExpiresAt(q.expires_at, max_lifetime),
                        !.is_public = TRUE,
                        !.user = q.pub.owner_id,
                        !.project_id = q.pub.id]
                 ELSE IF q.project_id # NoProject THEN q
                 ELSE [q EXCEPT !.project_id = q.pub.id]
           r == [Pending("create") EXCEPT !.code = q.code, !.user = q.req.owner_id]
       IN IF anon /\ q.pub.owner_id = NoUser
          THEN /\ proc' = [proc EXCEPT ![p] = IdleProc]
               /\ ret' = HttpError(r, 500, "no_public_owner", NoCode)
          ELSE IF q.code # NoCode
          THEN IF GetLinkByShortCode(links, q.code) # NoLink
               THEN /\ proc' = [proc EXCEPT ![p] = IdleProc]
                    /\ ret' = HttpError(r, 400, "code_taken", q.code)
               ELSE /\ proc' = [proc EXCEPT ![p] =
                                    [q1 EXCEPT !.pc = "insert", !.explicit = TRUE]]
                    /\ ret' = Pending("create")
          ELSE \E c \in Codes :
                  /\ proc' = [proc EXCEPT ![p] = GenerateShortCode(q1, c)]
                  /\ ret' = Pending("create")
    /\ UNCHANGED <<now, ticks, storeVars, cache, clicked>>

\* lines 115-157: project, membership, expiration, INSERT
CreateInsert(p) ==
    /\ proc[p].pc = "insert"
    /\ LET q == proc[p]
           project == GetProjectById(projects, q.project_id)
           given == q.expires_at # NoTime
           expires_at == IF given THEN q.expires_at
                         ELSE now + (project.default_link_lifetime_days * MinutesPerDay)
           new_link == [id |-> nextLinkId, original_url |-> "x",
                        short_code |-> q.code, created_at |-> now,
                        expires_at |-> expires_at, owner_id |-> q.user,
                        project_id |-> q.project_id, clicks_count |-> 0,
                        last_clicked_at |-> NoTime, is_public |-> q.is_public]
           r == [Pending("create") EXCEPT !.code = q.code, !.user = q.req.owner_id]
       IN /\ proc' = [proc EXCEPT ![p] = IdleProc]
          /\ IF project = NoProjectRow
             THEN /\ ret' = HttpError(r, 404, "project_not_found", NoCode)
                  /\ UNCHANGED <<links, nextLinkId>>
             ELSE IF /\ q.user # NoUser
                     /\ q.project_id # q.pub.id
                     /\ ~CheckUserInProject(project, q.user)
             THEN /\ ret' = HttpError(r, 403, "no_project_access", NoCode)
                  /\ UNCHANGED <<links, nextLinkId>>
             ELSE IF given /\ ExpiresTooSoon(q.expires_at, now)
             THEN /\ ret' = HttpError(r, 400, "expires_too_soon", NoCode)
                  /\ UNCHANGED <<links, nextLinkId>>
             ELSE IF ~UniqueShortCode(links, q.code)
             THEN /\ ret' = HttpError(r, 500, "integrity_error", NoCode)
                  /\ nextLinkId' = nextLinkId + 1
                  /\ UNCHANGED links
             ELSE /\ ret' = Returned(r, new_link)
                  /\ links' = links \cup {new_link}
                  /\ nextLinkId' = nextLinkId + 1
    /\ UNCHANGED <<now, ticks, projects, nextProjectId, members, users, cache, clicked>>

\* ------------------------------------------------------- update_link_stats
RowsById(ls, id) == {l \in ls : l.id = id}

\* the calls for link id that have not executed their UPDATE yet
ClicksInFlight(id) ==
    {p \in Procs : proc[p].pc = "update" /\ proc[p].link_id = id}

\* the redirect router calls update_link_stats(link.id) with the link that
\* get_link_by_short_code returned to it
ClickCall(p, link_id) ==
    /\ proc[p].pc = "idle"
    /\ clicked[link_id] < MaxClicks
    /\ RowsById(links, link_id) # {}
    /\ proc' = [proc EXCEPT ![p] =
                  [IdleProc EXCEPT !.pc = "update", !.link_id = link_id,
                        !.row = CHOOSE l \in RowsById(links, link_id) : TRUE]]
    /\ clicked' = [clicked EXCEPT ![link_id] = @ + 1]
    /\ ret' = Pending("recordClick")
    /\ UNCHANGED <<now, ticks, storeVars, cache>>

\* lines 272-283: the UPDATE ... RETURNING statement and its commit
ClickUpdate(p) ==
    /\ proc[p].pc = "update"
    /\ LET hit == RowsById(links, proc[p].link_id)
       IN IF hit = {}
          THEN /\ ret' = [Returned(Pending("recordClick"), NoLink) EXCEPT
                            !.n = proc[p].link_id]
               /\ proc' = [proc EXCEPT ![p] = IdleProc]
               /\ UNCHANGED links
          ELSE LET old == CHOOSE l \in hit : TRUE
                   row == UpdateStatsRow(old, proc[p].row)
               IN /\ links' = (links \ {old}) \cup {row}
                  /\ proc' = [proc EXCEPT ![p].pc = "stats", ![p].row = row]
                  /\ ret' = Pending("recordClick")
    /\ UNCHANGED <<now, ticks, nextLinkId, projects, nextProjectId, members, users,
                   cache, clicked>>

\* lines 285-305: overwrite the stats entry with the returned row
ClickCache(p) ==
    /\ proc[p].pc = "stats"
    /\ LET row == proc[p].row
       IN /\ cache' = CacheSet(cache, StatsKey(row.short_code), StatsOfRow(row), CacheTtl)
          /\ ret' = [Returned(Pending("recordClick"), row) EXCEPT
                        !.n = row.id, !.code = row.short_code]
    /\ proc' = [proc EXCEPT ![p] = IdleProc]
    /\ UNCHANGED <<now, ticks, storeVars, clicked>>

\* -------------------------------------------------- get_link_by_short_code
Resolve(c, u) ==
    LET acl == CheckLinkPermissions(cache, links, members, c, u)
        r == [Pending("resolve") EXCEPT !.code = c, !.user = u,
                 !.can_read = acl.can_read, !.can_modify = acl.can_modify,
                 !.acl_hit = acl.hit]
        ch == acl.cache
    IN /\ IF ~acl.can_read
          THEN /\ cache' = ch
               /\ ret' = HttpError(r, 404, "not_found_or_no_access", NoCode)
          ELSE IF CacheHit(ch, StaticKey(c))
          THEN LET link_static == ch[StaticKey(c)].val
               IN IF CachedExpired(link_static, now)
                  THEN /\ cache' = CacheDelete(CacheDelete(ch, StaticKey(c)), StatsKey(c))
                       /\ ret' = HttpError([r EXCEPT !.path = "cache"], 410, "expired", NoCode)
                  ELSE LET st == GetLinkStats(ch, links, c)
                       IN /\ cache' = st.cache
                          /\ ret' = Returned([r EXCEPT !.path = "cache"],
                                             StaticToLink(link_static, st.stats))
          ELSE LET link == GetLinkByShortCode(links, c)
               IN IF link = NoLink
                  THEN /\ cache' = ch
                       /\ ret' = HttpError([r EXCEPT !.path = "store"], 404, "not_found", c)
                  ELSE IF StoreExpired(link, now)
                  THEN /\ cache' = ch
                       /\ ret' = HttpError([r EXCEPT !.path = "store"], 410, "expired", NoCode)
                  ELSE /\ cache' = CacheSet(
                                     CacheSet(ch, StaticKey(c), StaticFromLink(link), CacheTtl),
                                     StatsKey(c), StatsFromLink(link), CacheTtl)
                       /\ ret' = Returned([r EXCEPT !.path = "store"], link)
       /\ UNCHANGED <<now, ticks, storeVars, proc, clicked>>

\* ------------------------------------------------------------- update_link
Update(c, patch, u) ==
    LET link == GetLinkByShortCode(links, c)
        r == [Pending("update") EXCEPT !.code = c, !.user = u]
    IN /\ IF link = NoLink
          THEN /\ ret' = HttpError(r, 404, "code_not_found", c)
               /\ UNCHANGED links
          ELSE IF link.owner_id # u /\ ~CheckLinkProjectAccess(links, members, link.id, u)
          THEN /\ ret' = HttpError(r, 403, "no_edit_rights", NoCode)
               /\ UNCHANGED links
          ELSE IF EmptyPatch(patch)
          THEN /\ ret' = Returned(r, link)
               /\ UNCHANGED links
          ELSE /\ links' = (links \ {link}) \cup {ApplyPatch(link, patch)}
               /\ ret' = Returned(r, ApplyPatch(link, patch))
       /\ UNCHANGED <<now, ticks, nextLinkId, projects, nextProjectId, members,
                      users, cache, proc, clicked>>

\* ------------------------------------------------------------- delete_link
Delete(c, u) ==
    LET link == GetLinkByShortCode(links, c)
        r == [Pending("delete") EXCEPT !.code = c, !.user = u]
    IN /\ IF link = NoLink
          THEN /\ ret' = HttpError(r, 404, "code_not_found", c)
               /\ UNCHANGED links
          ELSE IF link.owner_id # u /\ ~CheckLinkProjectAdmin(links, members, link.id, u)
          THEN /\ ret' = HttpError(r, 403, "no_delete_rights", NoCode)
               /\ UNCHANGED links
          ELSE /\ links' = links \ {l \in links : l.id = link.id}
               /\ ret' = Returned(r, link)
       /\ UNCHANGED <<now, ticks, nextLinkId, projects, nextProjectId, members,
                      users, cache, proc, clicked>>

\* ------------------------------------------------------- get_popular_links
\* WHERE expires_at > now
Unexpired(ls, t) == {l \in ls : l.expires_at # NoTime /\ l.expires_at > t}

\* the results the statement may give: ORDER BY clicks_count DESC LIMIT limit,
\* rows of equal count in any order
PopularRows(ls, t, limit) ==
    LET rows == Unexpired(ls, t)
        n == IF limit < Cardinality(rows) THEN limit ELSE Cardinality(rows)
    IN {s \in [1..n -> rows] :
          /\ \A i, j \in 1..n :
                i < j => (s[i] # s[j] /\ s[i].clicks_count >= s[j].clicks_count)
          /\ \A l \in rows \ {s[i] : i \in 1..n} :
                \A i \in 1..n : s[i].clicks_count >= l.clicks_count}

GetPopularLinks(limit) ==
    LET r == [Pending("popular") EXCEPT !.n = limit]
        k == PopularKey(limit)
    IN /\ IF CacheHit(cache, k) /\ cache[k].val # << >>
          THEN LET cached_links == cache[k].val
               IN /\ cache' = cache
                  /\ ret' = [Returned(r, NoLink) EXCEPT
                               !.path = "cache",
                               !.popular = [i \in 1..Len(cached_links) |->
                                               CacheToLink(cached_links[i])]]
          ELSE \E rows \in PopularRows(links, now, limit) :
                  /\ cache' = CacheSet(cache, k,
                                       [i \in 1..Len(rows) |-> CacheFromLink(rows[i])],
                                       PopularTtl)
                  /\ ret' = [Returned(r, NoLink) EXCEPT
                               !.path = "store", !.popular = rows]
       /\ UNCHANGED <<now, ticks, storeVars, proc, clicked>>

\* --------------------------------------------------- cleanup_expired_links
\* a selection that also takes the links expiring at this very instant
ExpiredLinksInclusive(ls, current_time) ==
    {l \in ls : l.expires_at # NoTime /\ l.expires_at <= current_time}

\* WHERE expires_at IS NOT NULL AND expires_at < current_time
ExpiredLinks(ls, current_time) ==
    {l \in ls : l.expires_at # NoTime /\ l.expires_at < current_time}

\* a count of the rows the table held, not of the rows the statement removed
RowCountOfTable(before, after) == Cardinality(before)

\* result.rowcount of the DELETE statement
RowCount(before, after) == Cardinality(before \ after)

\* path records that the call directly follows a cleanup that removed rows
CleanupExpired ==
    LET expired_links == ExpiredLinks(links, now)
        ch == CacheDeleteAll(cache, {BareKey(l.short_code) : l \in expired_links})
    IN /\ links' = links \ ExpiredLinks(links, now)
       /\ cache' = CacheDeleteAll(ch, {k \in DOMAIN ch : k.kind = "popular"})
       /\ ret' = [Returned(Pending("cleanup"), NoLink) EXCEPT
                    !.n = RowCount(links, links'),
                    !.path = IF ret.op = "cleanup" /\ ret.n > 0
                             THEN "repeat" ELSE ""]
       /\ UNCHANGED <<now, ticks, nextLinkId, projects, nextProjectId, members,
                      users, proc, clicked>>

\* ------------------------------------------------------ add_project_member
AddProjectMember(project_id, target, is_admin, u) ==
    LET r == [Pending("add_member") EXCEPT !.user = u, !.n = project_id]
        err == CheckProjectAdmin(projects, members, project_id, u)
        row == [project_id |-> project_id, user_id |-> target, is_admin |-> is_admin]
    IN /\ IF err # 200
          THEN /\ ret' = HttpError(r, err, "project_admin_check", NoCode)
               /\ UNCHANGED members
          ELSE IF ~(\E x \in users : x.id = target)
          THEN /\ ret' = HttpError(r, 404, "user_not_found", NoCode)
               /\ UNCHANGED members
          ELSE /\ members' = {m \in members :
                                ~(m.project_id = project_id /\ m.user_id = target)}
                             \cup {row}
               /\ ret' = Returned(r, NoLink)
       /\ UNCHANGED <<now, ticks, links, nextLinkId, projects, nextProjectId,
                      users, cache, proc, clicked>>

\* --------------------------------------------------- remove_project_member
RemoveProjectMember(project_id, member_id, u) ==
    LET r == [Pending("remove_member") EXCEPT !.user = u, !.n = project_id]
        err == CheckProjectAdmin(projects, members, project_id, u)
        project == GetProjectById(projects, project_id)
        rows == {m \in members : m.project_id = project_id /\ m.user_id = member_id}
    IN /\ IF err # 200
          THEN /\ ret' = HttpError(r, err, "project_admin_check", NoCode)
               /\ UNCHANGED members
          ELSE IF member_id = project.owner_id
          THEN /\ ret' = HttpError(r, 400, "cannot_remove_owner", NoCode)
               /\ UNCHANGED members
          ELSE IF rows = {}
          THEN /\ ret' = HttpError(r, 404, "not_a_member", NoCode)
               /\ UNCHANGED members
          ELSE /\ members' = members \ rows
               /\ ret' = Returned(r, NoLink)
       /\ UNCHANGED <<now, ticks, links, nextLinkId, projects, nextProjectId,
                      users, cache, proc, clicked>>

\* -------------------------------------------------------------------- Next
\* a call made by a client that waits for each call to return
Call(A) ==
    Quiescent /\ calls < MaxCalls /\ calls' = calls + 1 /\ redis_up' = redis_up /\ A

\* a later step of a call in flight, or of the environment
Step(A) == calls' = calls /\ redis_up' = redis_up /\ A

\* the requests of the create endpoint exercised together with the other calls
CreateRequests ==
    {Request(NoUser, NoCode, NoProject, NoTime, FALSE),
     Request("u1", "a", WorkProject, now + MinExpirationMinutes, FALSE),
     Request("u1", "a", NoProject, NoTime, TRUE)}

\* codes are interchangeable: the calls address the codes the store or the cache
\* knows, and "a" standing for any code known to neither
KnownCodes ==
    {"a"} \cup {l.short_code : l \in links}
          \cup {k.code : k \in {x \in DOMAIN cache : x.code # NoCode}}

Patches ==
    {Patch(NoUrl, NoTime, FALSE, FALSE), Patch(NoUrl, now - 1, FALSE, FALSE),
     Patch(NoUrl, NoTime, TRUE, FALSE), Patch("y", now + 6, TRUE, TRUE)}

Next ==
    \/ Step(Quiescent /\ \E d \in TickSteps : Tick(d))
    \/ Call(\E r \in CreateRequests :
              CreateCall(1, r.owner_id, r.short_code, r.project_id, r.expires_at,
                         r.is_public))
    \/ Step(CreatePublicProject(1))
    \/ Step(CreateShortCode(1))
    \/ Step(CreateInsert(1))
    \/ Call(\E i \in LinkIds : ClickCall(1, i))
    \/ Step(ClickUpdate(1))
    \/ Step(ClickCache(1))
    \/ Call(\E c \in KnownCodes, u \in Requesters : Resolve(c, u))
    \/ Call(\E c \in KnownCodes, pt \in Patches, u \in Users : Update(c, pt, u))
    \/ Call(\E c \in KnownCodes, u \in Users : Delete(c, u))
    \/ Call(CleanupExpired)
    \/ Call(\E b \in BOOLEAN, u \in Users : AddProjectMember(WorkProject, "u2", b, u))
    \/ Call(\E u \in Users : RemoveProjectMember(WorkProject, "u2", u))

Spec == Init /\ [][Next]_vars

\* ------------------------------------------------------- Redis unreachable
\* the connection to Redis is lost: every command raises from now on
Outage ==
    /\ redis_up
    /\ redis_up' = FALSE
    /\ ret' = Pending("outage")
    /\ UNCHANGED <<now, ticks, storeVars, cache, proc, clicked, calls>>

\* the connection is back; Redis still holds what it held
Recover ==
    /\ ~redis_up
    /\ redis_up' = TRUE
    /\ ret' = Pending("recover")
    /\ UNCHANGED <<now, ticks, storeVars, cache, proc, clicked, calls>>

PopularLimits == {1, DefaultPopularLimit}

\* the read and maintenance operations with Redis coming and going
NextOutage ==
    \/ Step(Quiescent /\ \E d \in TickSteps : Tick(d))
    \/ Call(CreateCall(1, "u1", NoCode, WorkProject, now + MinExpirationMinutes, TRUE))
    \/ Step(CreatePublicProject(1))
    \/ Step(CreateShortCode(1))
    \/ Step(CreateInsert(1))
    \/ Call(\E i \in LinkIds : ClickCall(1, i))
    \/ Step(ClickUpdate(1))
    \/ Step(ClickCache(1))
    \/ Call(\E c \in KnownCodes, u \in {"u2", NoUser} : Resolve(c, u))
    \/ Call(\E c \in KnownCodes, pt \in Patches : Update(c, pt, "u1"))
    \/ Call(\E n \in PopularLimits : GetPopularLinks(n))
    \/ Call(CleanupExpired)
    \/ Outage
    \/ Recover

SpecOutage == Init /\ [][NextOutage]_vars

\* ------------------------------------------------- redirect_to_original_url
\* the router holds the link get_link_by_short_code returned to it
RedirectPending == ret.op = "resolve" /\ ret.status = 200

\* line 40: update_link_stats(link.id) for that link, up to its UPDATE
RedirectClick(p) ==
    /\ RedirectPending
    /\ proc[p].pc = "idle"
    /\ proc' = [proc EXCEPT ![p] =
                  [IdleProc EXCEPT !.pc = "update", !.link_id = ret.link.id,
                                   !.row = ret.link]]
    /\ IF RowsById(links, ret.link.id) # {}
       THEN /\ clicked[ret.link.id] < MaxClicks
            /\ clicked' = [clicked EXCEPT ![ret.link.id] = @ + 1]
       ELSE clicked' = clicked
    /\ ret' = [Pending("redirect") EXCEPT !.code = ret.code, !.user = ret.user,
                                          !.link = ret.link]
    /\ UNCHANGED <<now, ticks, storeVars, cache>>

\* redirects served one at a time, between creations and deletions of links;
\* every resolve is the first half of a redirect
NextRedirect ==
    \/ ~RedirectPending /\ Step(Quiescent /\ \E d \in TickSteps : Tick(d))
    \/ ~RedirectPending /\
          Call(\E u \in Users :
                  CreateCall(1, u, NoCode, WorkProject, now + MinExpirationMinutes, FALSE))
    \/ Step(CreatePublicProject(1))
    \/ Step(CreateShortCode(1))
    \/ Step(CreateInsert(1))
    \/ ~RedirectPending /\ Call(\E c \in KnownCodes, u \in Requesters : Resolve(c, u))
    \/ Step(RedirectClick(1))
    \/ Step(ClickUpdate(1))
    \/ Step(ClickCache(1))
    \/ ~RedirectPending /\ Call(\E c \in KnownCodes : Delete(c, "u1"))
    \/ ~RedirectPending /\ Call(GetPopularLinks(DefaultPopularLimit))

SpecRedirect == Init /\ [][NextRedirect]_vars

\* ------------------------------------------------------ cache entries age
\* an hour passes, whatever the requests in flight: every TTL of the service
\* (static and stats 3600 s, popular 600 s, ACL 300 s) has then elapsed
TtlElapse ==
    /\ DOMAIN cache # {}
    /\ now' = now + CacheTtl
    /\ cache' = CacheAt(cache, now + CacheTtl)
    /\ ret' = Pending("tick")
    /\ UNCHANGED <<ticks, storeVars, proc, clicked>>

\* resolves of two requesters among creations, updates and deletions by the
\* owner, the cache entries ageing meanwhile
NextStale ==
    \/ Step(TtlElapse)
    \/ Step(\E d \in TickSteps : Tick(d))
    \/ Call(CreateCall(1, "u1", NoCode, WorkProject, NoTime, TRUE))
    \/ Step(CreatePublicProject(1))
    \/ Step(CreateShortCode(1))
    \/ Step(CreateInsert(1))
    \/ Call(\E c \in KnownCodes, u \in {"u2", NoUser} : Resolve(c, u))
    \/ Call(\E c \in KnownCodes, pt \in Patches : Update(c, pt, "u1"))
    \/ Call(\E c \in KnownCodes : Delete(c, "u1"))

\* time does not stop: Redis drops an entry once its TTL is over
SpecStale == Init /\ [][NextStale]_vars /\ WF_vars(Step(TtlElapse))

\* ------------------------------------------------ concurrent redirect hits
\* several requests in flight at once, each a coroutine of the event loop
InitConcurrent ==
    /\ InitStore
    /\ proc = [p \in ProcIds |-> IdleProc]

\* links are created by one worker, and every worker counts clicks at any time;
\* the redirects that race are those of one link, the oldest of the store
NextClicks ==
    \/ Step(\E d \in TickSteps : Tick(d))
    \/ Step(CreateCall(1, "u1", NoCode, WorkProject, NoTime, TRUE))
    \/ Step(CreatePublicProject(1))
    \/ Step(CreateShortCode(1))
    \/ Step(CreateInsert(1))
    \/ Step(\E p \in ProcIds, i \in LinkIds :
              (\A l \in links : i <= l.id) /\ ClickCall(p, i))
    \/ Step(\E p \in ProcIds : ClickUpdate(p))
    \/ Step(\E p \in ProcIds : ClickCache(p))

SpecClicks == InitConcurrent /\ [][NextClicks]_vars

\* ------------------------------------------------ concurrent create calls
\* the requests the other workers make while worker 1 is served
CompetingRequests ==
    {Request(NoUser, NoCode, WorkProject, now + MinExpirationMinutes, FALSE),
     Request("u1", "a", WorkProject, NoTime, FALSE)}

\* worker 1 takes every combination of requester, custom code, project,
\* expiration and public flag; the other workers compete with it for the
\* Public project and for the codes
NextCreate ==
    \/ Step(\E d \in TickSteps : Tick(d))
    \/ Step(\E u \in Requesters, c \in {NoCode, "a"}, pid \in ProjectInputs,
               e \in {NoTime} \cup {now + o : o \in ExpOffsets}, b \in BOOLEAN :
                 CreateCall(1, u, c, pid, e, b))
    \/ Step(\E p \in ProcIds \ {1}, r \in CompetingRequests :
                 CreateCall(p, r.owner_id, r.short_code, r.project_id,
                            r.expires_at, r.is_public))
    \/ Step(\E p \in ProcIds : CreatePublicProject(p))
    \/ Step(\E p \in ProcIds : CreateShortCode(p))
    \/ Step(\E p \in ProcIds : CreateInsert(p))

SpecCreate == InitConcurrent /\ [][NextCreate]_vars

\* ================================================================== claims
\* what the store says about the requester's rights on link l
StoreCanRead(l, u) ==
    \/ l.is_public
    \/ l.owner_id = u
    \/ \E m \in members : m.project_id = l.project_id /\ m.user_id = u

StoreCanModify(l, u) ==
    \/ l.owner_id = u
    \/ \E m \in members : m.project_id = l.project_id /\ m.user_id = u /\ m.is_admin

ResolveReturned == ret.op = "resolve" /\ ret.msg = "ok"

\* C1: resolve never returns a link whose expiration in the store is earlier
\* than the current time, on the cache path or the store path; and when the
\* expiry is detected on the static-cache path the call fails with Gone and
\* neither the static nor the stats entry of the code is left in the cache.
C1_ResolveNeverReturnsExpired ==
    /\ ResolveReturned =>
          \A l \in links : l.id = ret.link.id => ~StoreExpired(l, now)
    /\ (ret.op = "resolve" /\ ret.path = "cache" /\ ret.msg = "expired") =>
          /\ ret.status = 410
          /\ ~CacheHit(cache, StaticKey(ret.code))
          /\ ~CacheHit(cache, StatsKey(ret.code))

\* C2: a permission evaluation computed from the store gives
\* can_read = public or owner or any membership in the link's project, and
\* can_modify = owner or admin membership; (false, false) for an unknown code.
C2_PermissionRule ==
    (ret.op = "resolve" /\ ~ret.acl_hit) =>
        IF LinksByCode(links, ret.code) = {}
        THEN ~ret.can_read /\ ~ret.can_modify
        ELSE \A l \in LinksByCode(links, ret.code) :
                /\ ret.can_read = StoreCanRead(l, ret.user)
                /\ ret.can_modify = StoreCanModify(l, ret.user)

\* a non-admin member of the project evaluated against a private link of another owner
C2_Witness ==
    /\ ret.op = "resolve" /\ ~ret.acl_hit
    /\ ret.can_read /\ ~ret.can_modify
    /\ \E l \in LinksByCode(links, ret.code) :
          /\ ~l.is_public /\ l.owner_id # ret.user
          /\ \E m \in members : m.project_id = l.project_id
                                /\ m.user_id = ret.user /\ ~m.is_admin

\* C3: every pair the permission evaluation returns, and every pair held in
\* the ACL cache, has can_modify => can_read.
C3_ModifyImpliesRead ==
    /\ ret.op = "resolve" => (ret.can_modify => ret.can_read)
    /\ \A k \in DOMAIN cache :
          k.kind = "acl" => (cache[k].val[2] => cache[k].val[1])

\* an evaluation served from the ACL cache that grants modify on a private link
C3_Witness ==
    /\ ret.op = "resolve" /\ ret.acl_hit /\ ret.can_modify
    /\ \E l \in LinksByCode(links, ret.code) : ~l.is_public

\* C4: resolve by a requester without read access to an existing private link
\* fails exactly as resolve of a code that is in no store row: status 404 with
\* the message "not found or no access", whatever the cache holds.
C4_HiddenLikeMissing ==
    (ret.op = "resolve"
        /\ \/ LinksByCode(links, ret.code) = {}
           \/ \E l \in LinksByCode(links, ret.code) :
                 ~l.is_public /\ ~StoreCanRead(l, ret.user))
    => (ret.status = 404 /\ ret.msg = "not_found_or_no_access")

\* C5: with the calls made one after another, the stored click count of a link
\* is the number of recordClick calls made for it, and when a call returns the
\* stats entry of the code holds the click count and last-click time of the store.
C5_ClicksCounted ==
    /\ Quiescent => \A l \in links : l.clicks_count = clicked[l.id]
    /\ (ret.op = "recordClick" /\ ret.msg = "ok" /\ ret.link # NoLink) =>
          \A l \in RowsById(links, ret.n) :
             /\ CacheHit(cache, StatsKey(l.short_code))
             /\ cache[StatsKey(l.short_code)].val.clicks_count = l.clicks_count
             /\ FromIso(cache[StatsKey(l.short_code)].val.last_clicked_at)
                   = l.last_clicked_at

\* the second of two successive recordClick calls has returned
C5_Witness ==
    /\ ret.op = "recordClick" /\ ret.msg = "ok"
    /\ \E l \in RowsById(links, ret.n) :
          /\ l.clicks_count = 2
          /\ CacheHit(cache, StatsKey(l.short_code))
          /\ cache[StatsKey(l.short_code)].val.clicks_count = 2

\* C6: whatever the interleaving of concurrent recordClick calls on a link,
\* the stored click count is the number of calls made for the link less those
\* whose UPDATE has not run yet; once all have completed it is the initial
\* count plus the number of calls, so no increment is lost.
C6_NoLostClick ==
    \A l \in links :
        l.clicks_count = clicked[l.id] - Cardinality(ClicksInFlight(l.id))

\* two calls for the same link, started before either had updated the row,
\* have both executed their UPDATE
C6_Witness ==
    /\ proc[1].pc = "stats" /\ proc[2].pc = "stats"
    /\ proc[1].link_id = proc[2].link_id
    /\ \E l \in RowsById(links, proc[1].link_id) : l.clicks_count = 2

\* a step in which the create call of worker p returns, with a link or an error
CreateReturns(p) ==
    proc[p].pc \in {"code", "insert"} /\ proc'[p].pc = "idle"

\* the create call of worker p was made with an expiration that was less than
\* five minutes ahead of the time of the call
SentTooSoon(p) ==
    /\ proc[p].req.expires_at # NoTime
    /\ proc[p].req.expires_at < proc[p].req.created_at + MinExpirationMinutes

\* C7: no two links of the store have the same short code; a code the
\* generator returned was the code of no link when the generator looked it up,
\* and after drawing a taken code the generator is still drawing or has
\* returned such a free code.
C7_UniqueShortCodes ==
    /\ \A l1 \in links, l2 \in links : l1.short_code = l2.short_code => l1 = l2
    /\ \A p \in Procs :
          /\ (proc[p].pc = "insert" /\ ~proc[p].explicit) => proc[p].free
          /\ proc[p].redrawn => proc[p].pc \in {"code", "insert"}

\* the generator drew the code of a stored link, drew again and returned a free code
C7_Witness ==
    \E p \in Procs :
        /\ proc[p].pc = "insert" /\ ~proc[p].explicit
        /\ proc[p].redrawn /\ proc[p].free
        /\ links # {} /\ LinksByCode(links, proc[p].code) = {}

\* C8: when create looks up a custom short code that a link of the store
\* holds, the call fails with 400 "short code taken", inserts nothing and
\* leaves every link as it was.
C8_DuplicateCodeConflicts ==
    [][\A p \in Procs :
          (/\ proc[p].pc = "code" /\ proc[p].code # NoCode
           /\ LinksByCode(links, proc[p].code) # {}
           /\ proc'[p] # proc[p])
          => /\ proc'[p].pc = "idle"
             /\ ret'.op = "create" /\ ret'.status = 400
             /\ ret'.msg = "code_taken" /\ ret'.arg = proc[p].code
             /\ links' = links /\ nextLinkId' = nextLinkId]_vars

\* a create call with a custom code has just been refused, the link that
\* holds the code being in the store
C8_Witness ==
    /\ ret.op = "create" /\ ret.status = 400 /\ ret.msg = "code_taken"
    /\ \E l \in links : l.short_code = ret.arg /\ ret.arg # NoCode

\* C9: a link persisted by a create call without a requester is in a project
\* named Public, is public, and expires no later than its creation time plus
\* that project's default lifetime in days.
C9_AnonymousDefaults ==
    (ret.op = "create" /\ ret.msg = "ok" /\ ret.user = NoUser) =>
        /\ ret.link \in links
        /\ ret.link.is_public
        /\ \E pr \in PublicProjects :
              /\ ret.link.project_id = pr.id
              /\ ret.link.expires_at <=
                    ret.link.created_at
                        + (pr.default_link_lifetime_days * MinutesPerDay)

\* an anonymous create call has persisted a link some time after it was made
C9_Witness ==
    /\ ret.op = "create" /\ ret.msg = "ok" /\ ret.user = NoUser
    /\ ret.link \in links
    /\ ret.link.created_at > 1
    /\ ret.link.expires_at < ret.link.created_at + (PublicLifetimeDays * MinutesPerDay)

\* what a create call persists: a link expiring neither sooner than five
\* minutes after its creation nor, when no expiration was sent, at any other
\* time than a current time of the call plus the default lifetime of its project
CreatedExpiration(p) ==
    \A l \in links' \ links :
        /\ l.expires_at >= l.created_at + MinExpirationMinutes
        /\ proc[p].req.expires_at = NoTime =>
              \E t \in proc[p].req.created_at .. now :
                 l.expires_at =
                    t + (GetProjectById(projects, l.project_id)
                            .default_link_lifetime_days * MinutesPerDay)

\* C10 as stated: every create call of an authenticated requester that sends
\* an expiration earlier than now + 5 minutes fails with the validation error
\* "at least 5 minutes" and persists nothing; a call that sends no expiration
\* persists a link expiring at now + the project's default lifetime; every
\* persisted link expires at least five minutes after its creation.
C10_TooSoonAlwaysValidationError ==
    [][\A p \in Procs : CreateReturns(p) =>
          /\ (proc[p].req.owner_id # NoUser /\ SentTooSoon(p)) =>
                /\ links' = links
                /\ ret'.status = 400 /\ ret'.msg = "expires_too_soon"
          /\ CreatedExpiration(p)]_vars

\* C10: a create call of an authenticated requester that sends an expiration
\* earlier than now + 5 minutes persists nothing and fails; it fails with the
\* validation error "at least 5 minutes" exactly when the checks made before
\* the expiration check pass (the custom code is free, the project exists, the
\* requester may use the project), and with the error of the first failing one
\* otherwise.  A call that sends no expiration persists a link expiring at
\* now + the project's default lifetime, and every persisted link expires at
\* least five minutes after its creation.
C10_ExpirationChecked ==
    [][\A p \in Procs : CreateReturns(p) =>
          /\ (proc[p].req.owner_id # NoUser /\ SentTooSoon(p)) =>
                LET q == proc[p]
                    project == GetProjectById(projects, q.project_id)
                    taken == q.pc = "code"
                    missing == q.pc = "insert" /\ project = NoProjectRow
                    denied == /\ q.pc = "insert" /\ project # NoProjectRow
                              /\ q.project_id # q.pub.id
                              /\ ~CheckUserInProject(project, q.user)
                IN /\ links' = links
                   /\ ret'.status \in {400, 403, 404}
                   /\ taken => (ret'.status = 400 /\ ret'.msg = "code_taken")
                   /\ missing => (ret'.status = 404 /\ ret'.msg = "project_not_found")
                   /\ denied => (ret'.status = 403 /\ ret'.msg = "no_project_access")
                   /\ ~(taken \/ missing \/ denied) =>
                         (ret'.status = 400 /\ ret'.msg = "expires_too_soon")
          /\ CreatedExpiration(p)]_vars

\* a member of the project has just been refused a link for its expiration,
\* the store holding no link
C10_Witness ==
    /\ ret.op = "create" /\ ret.status = 400 /\ ret.msg = "expires_too_soon"
    /\ ret.user = "u1"
    /\ links = {}

\* C11: update changes the stored link only for a requester who, when the call
\* is made, owns the link or holds an admin membership in its project; for any
\* other requester of an existing link it answers 403 and the store is as before.
C11_UpdateNeedsOwnerOrAdmin ==
    [][ret'.op = "update" =>
          \A l \in LinksByCode(links, ret'.code) :
              ~StoreCanModify(l, ret'.user) =>
                  (ret'.status = 403 /\ links' = links)]_vars

\* the requesters update_link lets through for link l
UpdateAuthorised(l, u) ==
    l.owner_id = u \/ CheckLinkProjectAccess(links, members, l.id, u)

\* the requesters delete_link lets through for link l
DeleteAuthorised(l, u) ==
    l.owner_id = u \/ CheckLinkProjectAdmin(links, members, l.id, u)

\* C12: on the same store and for the same requester delete is refused with
\* 403 exactly when update would be, and the other way round; a delete that is
\* let through removes the link and a refused one leaves the store as it was.
C12_DeleteAuthorisedLikeUpdate ==
    [][/\ ret'.op = "delete" =>
             \A l \in LinksByCode(links, ret'.code) :
                 /\ (ret'.status = 403) = ~UpdateAuthorised(l, ret'.user)
                 /\ ret'.status = 403 => links' = links
                 /\ ret'.status = 200 => links' = links \ {l}
       /\ ret'.op = "update" =>
             \A l \in LinksByCode(links, ret'.code) :
                 (ret'.status = 403) = ~DeleteAuthorised(l, ret'.user)]_vars

\* C13: cleanup removes from the store exactly the links whose expiration is
\* set and strictly before the current time, returns the number of rows removed,
\* and leaves the links with no expiration or one not yet passed as they were.
C13_CleanupRemovesExactlyExpired ==
    [][ret'.op = "cleanup" =>
          /\ links' = {l \in links : l.expires_at = NoTime \/ l.expires_at >= now}
          /\ ret'.n = Cardinality(links \ links')
          /\ ret'.status = 200]_vars

\* a cleanup removed a link and spared one with an expiration still ahead
C13_Witness ==
    /\ ret.op = "cleanup"
    /\ ret.n >= 1
    /\ \E l \in links : l.expires_at # NoTime /\ l.expires_at >= now

\* C14: when cleanup completes, neither the static nor the stats cache entry of
\* any link it deleted remains in the cache, and no popular-links entry remains.
C14_CleanupEvictsDeleted ==
    [][ret'.op = "cleanup" =>
          /\ \A l \in links \ links' :
                 /\ StaticKey(l.short_code) \notin DOMAIN cache'
                 /\ StatsKey(l.short_code) \notin DOMAIN cache'
          /\ \A k \in DOMAIN cache' : k.kind # "popular"]_vars

\* C15: a cleanup called right after another cleanup, with no tick and no other
\* call in between, returns 0 and leaves the store as it was.
C15_CleanupIdempotent ==
    [][(ret.op = "cleanup" /\ ret'.op = "cleanup") =>
          (ret'.n = 0 /\ storeVars' = storeVars)]_vars

\* the second of two cleanups in a row, the first having removed a link and
\* spared another
C15_Witness ==
    /\ ret.op = "cleanup"
    /\ ret.path = "repeat"
    /\ ret.n = 0
    /\ links # {}

\* what a service that reads the store only answers to resolve(c, u)
RefResolve(c, u) ==
    IF \A l \in LinksByCode(links, c) : ~StoreCanRead(l, u)
    THEN [status |-> 404, link |-> NoLink]
    ELSE LET l == GetLinkByShortCode(links, c)
         IN IF l.expires_at # NoTime /\ l.expires_at < now
            THEN [status |-> 410, link |-> NoLink]
            ELSE [status |-> 200, link |-> l]

\* s is an answer of the store to "the limit most clicked unexpired links"
RefPopular(s, limit) ==
    LET live == {l \in links : l.expires_at # NoTime /\ l.expires_at > now}
        rest == live \ {s[i] : i \in 1..Len(s)}
    IN /\ \A i \in 1..Len(s) : s[i] \in live
       /\ \A i, j \in 1..Len(s) : i < j => s[i] # s[j]
       /\ \A i, j \in 1..Len(s) : i < j => s[i].clicks_count >= s[j].clicks_count
       /\ \A l \in rest : \A i \in 1..Len(s) : s[i].clicks_count >= l.clicks_count
       /\ Len(s) <= limit
       /\ (Len(s) < limit => rest = {})

\* C16: while Redis cannot be reached, resolve, recordClick, popularLinks and
\* cleanup answer without a server error, give the results a service reading
\* the store only would give, change the store as that service would, and
\* leave the cache as it was.
C16_OutageLikeStoreOnly ==
    [][(~redis_up /\ ret'.op \in {"resolve", "recordClick", "popular", "cleanup"}) =>
          /\ ret'.status # 500
          /\ cache' = cache
          /\ ret'.op = "resolve" =>
                /\ ret'.status = RefResolve(ret'.code, ret'.user).status
                /\ ret'.link = RefResolve(ret'.code, ret'.user).link
                /\ storeVars' = storeVars
          /\ (ret'.op = "recordClick" /\ proc[1].pc = "update") =>
                \A l \in RowsById(links, proc[1].link_id) :
                    links' = (links \ {l}) \cup
                               {[l EXCEPT !.clicks_count = @ + 1,
                                          !.last_clicked_at = now]}
          /\ (ret'.op = "recordClick" /\ proc[1].pc # "update") =>
                storeVars' = storeVars
          /\ ret'.op = "popular" =>
                /\ ret'.status = 200
                /\ RefPopular(ret'.popular, ret'.n)
                /\ storeVars' = storeVars
          /\ ret'.op = "cleanup" =>
                /\ ret'.status = 200
                /\ links' = {l \in links : l.expires_at = NoTime \/ l.expires_at >= now}
                /\ ret'.n = Cardinality(links \ links')]_vars

\* with Redis unreachable, resolve answered from the store although Redis
\* still holds a static entry of the code that differs from the row
C16_Witness ==
    /\ ~redis_up
    /\ ret.op = "resolve" /\ ret.status = 200
    /\ StaticKey(ret.code) \in DOMAIN cache
    /\ cache[StaticKey(ret.code)].val # StaticFromLink(ret.link)

\* C17: there is never more than one project named Public, and there is one as
\* soon as a create call has got past its get-or-create of the Public project,
\* whatever the interleaving of the concurrent create calls.
C17_SinglePublicProject ==
    /\ Cardinality(PublicProjects) <= 1
    /\ ((\E p \in Procs : proc[p].pc \in {"code", "insert"}) \/ links # {})
          => PublicProjects # {}

\* C18: once the calls made so far have returned, there is at most one
\* membership row per project and user, and the owner of every project holds a
\* membership row of that project with the admin flag set.
C18_OwnerIsAdminMember ==
    Quiescent =>
        /\ \A m1, m2 \in members :
              (m1.project_id = m2.project_id /\ m1.user_id = m2.user_id) => m1 = m2
        /\ \A p \in projects :
              \E m \in members :
                  m.project_id = p.id /\ m.user_id = p.owner_id /\ m.is_admin

\* the step is the UPDATE of a recordClick call for link id
ClickUpdated(id) ==
    \E p \in Procs :
        proc[p].pc = "update" /\ proc[p].link_id = id /\ proc'[p].pc # "update"

\* C19: the stored click count of a link is a natural number that never
\* decreases while the link is in the store: a link enters the store with count
\* 0, the UPDATE of recordClick raises the count by exactly one, and no step of
\* create, update, resolve, popularLinks or cleanup changes the count of a link
\* that stays in the store.
C19_ClicksMonotonic ==
    [][/\ \A m \in links' :
             /\ m.clicks_count \in Nat
             /\ (\A l \in links : l.id # m.id) => m.clicks_count = 0
       /\ \A l \in links : \A m \in links' :
             m.id = l.id =>
                 IF ClickUpdated(l.id)
                 THEN m.clicks_count = l.clicks_count + 1
                 ELSE m.clicks_count = l.clicks_count]_vars

\* a link that has been clicked was then updated and kept its count
C19_Witness ==
    /\ ret.op = "update" /\ ret.status = 200
    /\ \E l \in LinksByCode(links, ret.code) :
          l.clicks_count >= 1 /\ l.original_url = "y"

\* C20: a redirect whose resolve succeeded raises the stored click count of
\* the link it redirects to by exactly one before it answers, and a redirect
\* whose resolve failed answers 404 or 410 as resolve did and changes no link.
C20_RedirectCountsClick ==
    [][/\ \A p \in Procs :
             (proc[p].pc = "update" /\ proc'[p].pc # "update") =>
                 \E l \in RowsById(links, proc[p].link_id) :
                     \E m \in RowsById(links', l.id) :
                         m.clicks_count = l.clicks_count + 1
       /\ (ret'.op = "resolve" /\ ret'.status # 200) =>
             (ret'.status \in {404, 410} /\ links' = links)]_vars

C22_PopularListSound ==
    (ret.op = "popular" /\ ret.status = 200) =>
        /\ Len(ret.popular) <= ret.n
        /\ \A i \in 1..Len(ret.popular) : ~(ret.popular[i].expires_at < now)
        /\ \A i, j \in 1..Len(ret.popular) :
              i < j => ret.popular[i].clicks_count >= ret.popular[j].clicks_count

\* key k holds in cache b what it held in cache a, or is absent from both
SameEntry(a, b, k) ==
    /\ (k \in DOMAIN a) = (k \in DOMAIN b)
    /\ (k \in DOMAIN a => a[k] = b[k])

C24_ClickWritesStatsOnly ==
    [][ret'.op \in {"redirect", "recordClick"} =>
          /\ \A k \in (DOMAIN cache) \cup (DOMAIN cache') :
                ~SameEntry(cache, cache', k) =>
                    /\ k.kind = "stats"
                    /\ \E p \in Procs :
                          proc[p].pc = "stats" /\ k.code = proc[p].row.short_code
          /\ \A p \in Procs :
                (/\ proc[p].pc = "update" /\ proc'[p].pc # "update"
                 /\ RowsById(links, proc[p].link_id) = {}) =>
                    /\ ret'.status = 200
                    /\ storeVars' = storeVars
                    /\ cache' = cache]_vars

\* recordClick has returned for a link id the store no longer holds, with
\* entries of other kinds in the cache
C24_Witness ==
    /\ ret.op = "recordClick" /\ ret.status = 200 /\ ret.link = NoLink
    /\ RowsById(links, ret.n) = {}
    /\ \E k \in DOMAIN cache : k.kind = "static"
    /\ \E k \in DOMAIN cache : k.kind = "acl"

\* C25: a successful update changes in the store nothing but the URL, the
\* expiration and the public flag of the addressed link, each only if the
\* request supplies it; short code, owner, project, click count and every
\* other link are as before; and update and delete leave the cache as it was.
C25_UpdateFrame ==
    [][/\ (ret'.op = "update" /\ ret'.status = 200) =>
             \A l \in LinksByCode(links, ret'.code) :
                 \E pt \in Patches :
                     links' = (links \ {l}) \cup
                        {[l EXCEPT
                            !.original_url =
                                IF pt.original_url # NoUrl THEN pt.original_url ELSE @,
                            !.expires_at =
                                IF pt.expires_at # NoTime THEN pt.expires_at ELSE @,
                            !.is_public =
                                IF pt.has_public THEN pt.is_public ELSE @]}
       /\ ret'.op \in {"update", "delete"} =>
             /\ cache' = cache
             /\ <<nextLinkId, projects, nextProjectId, members, users>>' =
                   <<nextLinkId, projects, nextProjectId, members, users>>]_vars

\* an update has changed the expiration of a clicked link whose entries are
\* in the cache
C25_Witness ==
    /\ ret.op = "update" /\ ret.status = 200
    /\ \E l \in LinksByCode(links, ret.code) :
          /\ l.expires_at < now
          /\ StaticKey(l.short_code) \in DOMAIN cache
          /\ cache[StaticKey(l.short_code)].val # StaticFromLink(l)

\* every static entry is the projection of the store row of its code, and
\* every ACL entry is the pair the store gives for its code and requester
NoStaleEntry ==
    \A k \in DOMAIN cache :
        /\ k.kind = "static" =>
              \E l \in LinksByCode(links, k.code) : cache[k].val = StaticFromLink(l)
        /\ k.kind = "acl" =>
              IF LinksByCode(links, k.code) = {}
              THEN cache[k].val = <<FALSE, FALSE>>
              ELSE \A l \in LinksByCode(links, k.code) :
                      cache[k].val = <<StoreCanRead(l, k.user), StoreCanModify(l, k.user)>>

\* C26: once updates and deletes of a code have ceased and time goes on, the
\* cache holds no static or ACL entry that contradicts the store, from then on
\* for ever; a resolve made with no such entry answers as the store dictates
\* (URL, expiration, public flag, or the failure); and a resolve served from a
\* static or ACL entry leaves that entry, and so its time of expiry, unchanged.
C26_StalenessEnds ==
    /\ <>[]NoStaleEntry
    /\ [][ret'.op = "resolve" =>
            /\ NoStaleEntry =>
                  /\ ret'.status = RefResolve(ret'.code, ret'.user).status
                  /\ ret'.link.original_url =
                        RefResolve(ret'.code, ret'.user).link.original_url
                  /\ ret'.link.expires_at =
                        RefResolve(ret'.code, ret'.user).link.expires_at
                  /\ ret'.link.is_public =
                        RefResolve(ret'.code, ret'.user).link.is_public
            /\ ret'.acl_hit =>
                  SameEntry(cache, cache', AclKey(ret'.code, ret'.user))
            /\ (ret'.path = "cache" /\ ret'.status = 200) =>
                  SameEntry(cache, cache', StaticKey(ret'.code))]_vars

\* the cache holds a static entry that the store contradicts
C26_Witness ==
    /\ ~NoStaleEntry
    /\ \E k \in DOMAIN cache : k.kind = "static"
    /\ ret.op \in {"update", "delete"} /\ ret.status = 200

\* C27: whatever the interleaving of concurrent create calls that supply the
\* same custom short code, the store never holds two links with that code, and
\* the call that comes second to the code, being valid otherwise, is refused
\* with 400 "short code taken" and with no other failure.
C27_ConcurrentDuplicateConflicts ==
    /\ [](\A l1, l2 \in links : l1.short_code = l2.short_code => l1 = l2)
    /\ [][\A p \in Procs :
            (/\ proc[p].pc = "insert" /\ proc'[p].pc = "idle"
             /\ proc[p].req.short_code # NoCode
             /\ LinksByCode(links, proc[p].req.short_code) # {}
             /\ ret'.msg \notin {"project_not_found", "no_project_access",
                                 "expires_too_soon"})
            => /\ ret'.status = 400 /\ ret'.msg = "code_taken"
               /\ links' = links]_vars

\* C28: once a link with code c is in the store, a resolve of c made before it
\* expires by its owner, or by anyone if it is public, returns that link,
\* whatever happened before the link was created.
C28_ResolveAfterCreate ==
    ret.op = "resolve" =>
        \A l \in LinksByCode(links, ret.code) :
            (/\ ~(l.expires_at < now)
             /\ (l.owner_id = ret.user \/ l.is_public))
            => (ret.status = 200 /\ ret.link.id = l.id)

\* C29: resolve never returns a link of the store to a requester whom the
\* store, at the time of the call, gives no read access to it: the link is
\* not public, the requester is not its owner and holds no membership in its
\* project.
C29_NoReadNoLink ==
    (ret.op = "resolve" /\ ret.status = 200) =>
        \A l \in links : l.id = ret.link.id => StoreCanRead(l, ret.user)

\* C30: whatever the interleaving of concurrent recordClick calls on a link,
\* once all of them have completed the stats entry of the link's code, if the
\* cache holds one, carries the click count of the store.
C30_StatsCatchUp ==
    Quiescent =>
        \A l \in links :
            CacheHit(cache, StatsKey(l.short_code)) =>
                cache[StatsKey(l.short_code)].val.clicks_count = l.clicks_count

====
